---- MODULE Spec2Model ----
(***************************************************************************)
(* image-packer: conversion between 8-bit RGBA and packed 16-bit ARGB-1555 *)
(* (src/src/main.rs).  The pixel codec (pack, unpack) is modelled as       *)
(* operators computed the way the code computes them, in the integer       *)
(* widths the code uses; pack_image and unpack_image are modelled as step  *)
(* machines over a decoded image.                                          *)
(***************************************************************************)
EXTENDS Integers, Sequences, FiniteSets, TLC

VARIABLES
    cop, crgba, cword, cre,                   \* the codec applied to one pixel
    cmd, img, pc, argb_1555, rgba_img, cursor, writes, saved, \* one run of main
    pending, held, last,                      \* the pixel loop, order left open
    build, dimW, dimH, bufLen, idx, dpc       \* pack_image's u32 size arithmetic

codecVars == <<cop, crgba, cword, cre>>
runVars   == <<cmd, img, pc, argb_1555, rgba_img, cursor, writes, saved>>
parVars   == <<pending, held, last>>
dimVars   == <<build, dimW, dimH, bufLen, idx, dpc>>
vars      == <<codecVars, runVars, parVars, dimVars>>

(***************************************************************************)
(* Machine integers                                                        *)
(***************************************************************************)
U16Mod == 65536

\* 2^n for the shift distances of 16-bit words
Pow2(n) == <<1, 2, 4, 8, 16, 32, 64, 128, 256, 512, 1024, 2048, 4096, 8192, 16384, 32768, 65536>>[n + 1]

\* u16 >> n
Shr(v, n) == v \div Pow2(n)

\* u16 << n: bits shifted past bit 15 are lost
Shl16(v, n) == (v * Pow2(n)) % U16Mod

\* x | y, bit by bit from the lowest bit
RECURSIVE BitOr16(_, _)
BitOr16(x, y) ==
    IF x = 0 THEN y
    ELSE IF y = 0 THEN x
    ELSE (IF x % 2 = 1 \/ y % 2 = 1 THEN 1 ELSE 0) + 2 * BitOr16(x \div 2, y \div 2)

\* x & y, bit by bit from the lowest bit
RECURSIVE BitAnd16(_, _)
BitAnd16(x, y) ==
    IF x = 0 \/ y = 0 THEN 0
    ELSE (IF x % 2 = 1 /\ y % 2 = 1 THEN 1 ELSE 0) + 2 * BitAnd16(x \div 2, y \div 2)

\* `as u8`: truncation to the low 8 bits
AsU8(v) == v % 256

(***************************************************************************)
(* u32 values are pairs <<hi, lo>> of 16-bit limbs, so that products up to *)
(* 2^64 can be computed exactly and compared with the wrapped result.      *)
(***************************************************************************)
U32(n) == <<n \div U16Mod, n % U16Mod>>
ToNat(a) == a[1] * U16Mod + a[2]

\* the exact product of two 16-bit limbs, as <<hi, lo>>
Mul16(x, y) ==
    LET t == (x \div 256) * y
        u == (x % 256) * y
        s == (t % 256) * 256 + u
    IN <<(t \div 256) + (s \div U16Mod), s % U16Mod>>

\* the exact product of two u32 values: four limbs, highest first
WideMul(a, b) ==
    LET p00 == Mul16(a[2], b[2])
        p01 == Mul16(a[2], b[1])
        p10 == Mul16(a[1], b[2])
        p11 == Mul16(a[1], b[1])
        s1  == p00[1] + p01[2] + p10[2]
        s2  == p01[1] + p10[1] + p11[2] + (s1 \div U16Mod)
    IN <<p11[1] + (s2 \div U16Mod), s2 % U16Mod, s1 % U16Mod, p00[2]>>

\* the exact sum of a four-limb value and a u32 value
WideAdd(m, a) ==
    LET s0 == m[4] + a[2]
        s1 == m[3] + a[1] + (s0 \div U16Mod)
        s2 == m[2] + (s1 \div U16Mod)
    IN <<m[1] + (s2 \div U16Mod), s2 % U16Mod, s1 % U16Mod, s0 % U16Mod>>

\* the low 32 bits: what u32 arithmetic keeps when it wraps
Low32(m) == <<m[3], m[4]>>
Fits32(m) == m[1] = 0 /\ m[2] = 0

\* a < b on u32 values
Less32(a, b) == a[1] < b[1] \/ (a[1] = b[1] /\ a[2] < b[2])

\* m <= a for a four-limb m and a u32 a
WideLeq32(m, a) == Fits32(m) /\ ~Less32(a, Low32(m))

(***************************************************************************)
(* Pixel codec                                                             *)
(***************************************************************************)
\* unpack, line 33: alpha from bit 15
unpack_alpha(word) ==
    IF BitAnd16(Shr(word, 15), 1) = 1 THEN 255 ELSE 0

\* unpack, lines 34-36: the 5-bit field that starts at bit `shift`
field5(word, shift) == BitAnd16(Shr(word, shift), 31)

\* unpack, lines 39-41: 5-bit to 8-bit, in u32 (no wrap: at most 31*255+15)
ExpandShift(c5) == c5 * 8
expand(c5) == (c5 * 255 + 15) \div 31

\* unpack, lines 31-43
unpack(word) ==
    LET a  == unpack_alpha(word)
        r5 == field5(word, 10)
        g5 == field5(word, 5)
        b5 == field5(word, 0)
        r  == expand(r5)
        g  == expand(g5)
        b  == expand(b5)
    IN <<AsU8(r), AsU8(g), AsU8(b), a>>

\* pack, line 46
AlphaBitInverted(a) == IF a THEN 0 ELSE 1
alpha_bit(a) == IF a THEN 1 ELSE 0

\* pack, lines 47-49: 8-bit to 5-bit, in u16
QuantizeShift(c) == ((c + 4) % U16Mod) \div 8
QuantizeU8(c) == ((c * 31 + 127) % 256) \div 255
QuantizeTrunc(c) == ((c * 31) % U16Mod) \div 255
quantize(c) == ((c * 31 + 127) % U16Mod) \div 255

\* pack, lines 45-51
pack(r, g, b, a) ==
    LET a_bit == alpha_bit(a)
        r5    == quantize(r)
        g5    == quantize(g)
        b5    == quantize(b)
    IN BitOr16(BitOr16(BitOr16(Shl16(a_bit, 15), Shl16(r5, 10)), Shl16(g5, 5)), b5)

\* pack_image, lines 59-60: the loop body applied to one RGBA pixel
AlphaThreshold(pixel) == pack(pixel[1], pixel[2], pixel[3], pixel[4] >= 128)
pack_pixel(pixel) == pack(pixel[1], pixel[2], pixel[3], pixel[4] > 0)

(***************************************************************************)
(* pack_image and unpack_image                                             *)
(***************************************************************************)
\* line 57: width * height in u32; a build with overflow checks panics when
\* the product does not fit, a build without them keeps the low 32 bits
mul_overflows(width, height) == ~Fits32(WideMul(width, height))
buffer_len(width, height) == Low32(WideMul(width, height))

\* line 61: y * width + x in u32, as the exact value (four limbs)
index_wide(x, y, width) == WideAdd(WideMul(y, width), x)

\* line 61: the index stored to, for coordinates of an image held in memory
IndexColumnMajor(x, y, width) == x * width + y
IndexNoRow(x, y, width) == x
index_of(x, y, width) == ToNat(Low32(index_wide(U32(x), U32(y), U32(width))))

\* lines 74-77: only a 16-bit single-channel image is accepted
AnyLuma(format) == format \in {"Luma16", "Luma8"}
is_luma16(format) == format = "Luma16"

\* lines 58 and 80: the pixel iterators go through the rows top to bottom,
\* each row left to right
iter_x(n, width) == n % width
iter_y(n, width) == n \div width

\* lines 59-61: what one turn of pack_image's loop stores
pack_turn(buffer, image, x, y) ==
    [buffer EXCEPT ![index_of(x, y, image.width) + 1] = pack_pixel(image.data[<<x, y>>])]

\* lines 81-83: what one turn of unpack_image's loop stores
unpack_turn(buffer, image, x, y) ==
    [buffer EXCEPT ![<<x, y>>] = unpack(image.data[<<x, y>>])]

\* lines 58-62: the buffer after the first n turns of the sequential loop
RECURSIVE pack_loop(_, _, _)
pack_loop(buffer, image, n) ==
    IF n = 0 THEN buffer
    ELSE pack_turn(pack_loop(buffer, image, n - 1), image,
                   iter_x(n - 1, image.width), iter_y(n - 1, image.width))

\* lines 80-84: the image after the first n turns of the sequential loop
RECURSIVE unpack_loop(_, _, _)
unpack_loop(buffer, image, n) ==
    IF n = 0 THEN buffer
    ELSE unpack_turn(unpack_loop(buffer, image, n - 1), image,
                     iter_x(n - 1, image.width), iter_y(n - 1, image.width))

Coords(width, height) == (0..(width - 1)) \X (0..(height - 1))
NPixels(image) == image.width * image.height
Finished == {"built", "done", "err_save"}

(***************************************************************************)
(* The codec on one pixel: pack of an RGBA pixel; unpack of a 16-bit word  *)
(* followed by a re-pack of what unpack returned.                          *)
(***************************************************************************)
ChanSample == {0, 255}
AlphaSample == {0, 1, 128, 255}
Channel == 0..255
Word16 == 0..(U16Mod - 1)

\* RGBA inputs: one channel runs over all 8-bit values, the others over samples
PackInputs ==
    { <<r, g, b, a>> : r \in Channel, g \in ChanSample, b \in ChanSample, a \in AlphaSample }
    \cup { <<r, g, b, a>> : r \in ChanSample, g \in Channel, b \in ChanSample, a \in AlphaSample }
    \cup { <<r, g, b, a>> : r \in ChanSample, g \in ChanSample, b \in Channel, a \in AlphaSample }

RunIdle ==
    /\ cmd = "none" /\ img = [format |-> "none", width |-> 0, height |-> 0, data |-> <<>>]
    /\ pc = "idle" /\ argb_1555 = <<>> /\ rgba_img = <<>> /\ cursor = 0
    /\ writes = <<>> /\ saved = FALSE
ParIdle == pending = {} /\ held = <<>> /\ last = <<>>
DimIdle ==
    /\ build = "unchecked" /\ dimW = <<0, 0>> /\ dimH = <<0, 0>>
    /\ bufLen = <<0, 0>> /\ idx = <<0, 0>> /\ dpc = "idle"
CodecIdle == cop = "idle" /\ crgba = <<0, 0, 0, 0>> /\ cword = 0 /\ cre = 0

CodecInit ==
    /\ \/ cop = "pack_in" /\ crgba \in PackInputs /\ cword = 0
       \/ cop = "unpack_in" /\ cword \in Word16 /\ crgba = <<0, 0, 0, 0>>
    /\ cre = 0
    /\ RunIdle /\ ParIdle /\ DimIdle

\* lines 59-60 on the input pixel
PackOne ==
    /\ cop = "pack_in"
    /\ cword' = pack_pixel(crgba)
    /\ cop' = "pack_out"
    /\ UNCHANGED <<crgba, cre, runVars, parVars, dimVars>>

\* line 82 on the input word
UnpackOne ==
    /\ cop = "unpack_in"
    /\ crgba' = unpack(cword)
    /\ cop' = "unpack_out"
    /\ UNCHANGED <<cword, cre, runVars, parVars, dimVars>>

\* lines 59-60 on the pixel unpack returned
RepackOne ==
    /\ cop = "unpack_out"
    /\ cre' = pack_pixel(crgba)
    /\ cop' = "repacked"
    /\ UNCHANGED <<crgba, cword, runVars, parVars, dimVars>>

CodecNext == PackOne \/ UnpackOne \/ RepackOne

SpecCodec == CodecInit /\ [][CodecNext]_vars

(***************************************************************************)
(* One run of main on a decoded image held in memory                       *)
(***************************************************************************)
MaxW == 2
MaxH == 2
Builds == {"checked", "unchecked"}
RgbaSamples == { <<255, 0, 0, 255>>, <<0, 255, 0, 0>> }
Luma16Samples == { 64512, 31775 }
OtherFormats == {"Rgb8", "Rgba8", "Luma8"}
OtherPixel(format) ==
    IF format = "Rgb8" THEN <<255, 0, 0>>
    ELSE IF format = "Rgba8" THEN <<255, 0, 0, 255>>
    ELSE 200

Images(formats) ==
    UNION { UNION { UNION {
        IF f = "Luma16"
        THEN { [format |-> f, width |-> w, height |-> h, data |-> d] :
                  d \in [Coords(w, h) -> Luma16Samples] }
        ELSE IF f = "Rgba8in"
        THEN { [format |-> "Rgba8", width |-> w, height |-> h, data |-> d] :
                  d \in [Coords(w, h) -> RgbaSamples] }
        ELSE { [format |-> f, width |-> w, height |-> h,
                data |-> [c \in Coords(w, h) |-> OtherPixel(f)]] }
        : f \in formats } : w \in 1..MaxW } : h \in 1..MaxH }

Init ==
    /\ \/ cmd = "pack" /\ img \in Images({"Rgba8in"})
       \/ cmd = "unpack" /\ img \in Images({"Luma16"} \cup OtherFormats)
    /\ pc = "start" /\ argb_1555 = <<>> /\ rgba_img = <<>> /\ cursor = 0
    /\ writes = <<>> /\ saved = FALSE
    /\ build \in Builds
    /\ dimW = <<0, 0>> /\ dimH = <<0, 0>> /\ bufLen = <<0, 0>> /\ idx = <<0, 0>> /\ dpc = "idle"
    /\ CodecIdle /\ ParIdle

\* lines 55 and 71: open and decode the input; either may fail
Decode ==
    /\ pc = "start"
    /\ \E ok \in BOOLEAN : pc' = IF ok THEN "decoded" ELSE "err_decode"
    /\ UNCHANGED <<cmd, img, argb_1555, rgba_img, cursor, writes, saved,
                   codecVars, parVars, dimVars>>

\* lines 56-57: the zeroed output buffer of (width * height) entries
PackAlloc ==
    /\ pc = "decoded" /\ cmd = "pack"
    /\ LET width  == U32(img.width)
           height == U32(img.height)
       IN IF mul_overflows(width, height) /\ build = "checked"
          THEN pc' = "panic" /\ UNCHANGED <<argb_1555, writes>>
          ELSE /\ pc' = "loop"
               /\ argb_1555' = [i \in 1..ToNat(buffer_len(width, height)) |-> 0]
               /\ writes' = [i \in 1..ToNat(buffer_len(width, height)) |-> 0]
    /\ cursor' = 0
    /\ UNCHANGED <<cmd, img, rgba_img, saved, codecVars, parVars, dimVars>>

\* lines 58-62: one turn of the loop
PackStep ==
    /\ pc = "loop" /\ cmd = "pack" /\ cursor < NPixels(img)
    /\ LET x      == iter_x(cursor, img.width)
           y      == iter_y(cursor, img.width)
           i == index_of(x, y, img.width)
       IN IF i >= Len(argb_1555)
          THEN pc' = "panic" /\ UNCHANGED <<argb_1555, writes, cursor>>
          ELSE /\ argb_1555' = pack_turn(argb_1555, img, x, y)
               /\ writes' = [writes EXCEPT ![i + 1] = @ + 1]
               /\ cursor' = cursor + 1
               /\ pc' = "loop"
    /\ UNCHANGED <<cmd, img, rgba_img, saved, codecVars, parVars, dimVars>>

\* lines 63-64: the buffer becomes the output image; from_vec refuses a
\* buffer shorter than width * height and expect panics
PackBuild ==
    /\ pc = "loop" /\ cmd = "pack" /\ cursor = NPixels(img)
    /\ pc' = IF Len(argb_1555) >= NPixels(img) THEN "built" ELSE "panic"
    /\ UNCHANGED <<cmd, img, argb_1555, rgba_img, cursor, writes, saved,
                   codecVars, parVars, dimVars>>

\* lines 72-79: the format match, then the zeroed RGBA output image
UnpackMatch ==
    /\ pc = "decoded" /\ cmd = "unpack"
    /\ IF is_luma16(img.format)
       THEN /\ pc' = "loop"
            /\ rgba_img' = [c \in Coords(img.width, img.height) |-> <<0, 0, 0, 0>>]
            /\ writes' = [c \in Coords(img.width, img.height) |-> 0]
       ELSE pc' = "err_format" /\ UNCHANGED <<rgba_img, writes>>
    /\ UNCHANGED <<cmd, img, argb_1555, cursor, saved, codecVars, parVars, dimVars>>

\* lines 80-84: one turn of the loop
UnpackStep ==
    /\ pc = "loop" /\ cmd = "unpack" /\ cursor < NPixels(img)
    /\ LET x   == iter_x(cursor, img.width)
           y   == iter_y(cursor, img.width)
       IN /\ rgba_img' = unpack_turn(rgba_img, img, x, y)
          /\ writes' = [writes EXCEPT ![<<x, y>>] = @ + 1]
    /\ cursor' = cursor + 1
    /\ UNCHANGED <<cmd, img, pc, argb_1555, saved, codecVars, parVars, dimVars>>

\* line 84: the iterator is exhausted
UnpackBuild ==
    /\ pc = "loop" /\ cmd = "unpack" /\ cursor = NPixels(img)
    /\ pc' = "built"
    /\ UNCHANGED <<cmd, img, argb_1555, rgba_img, cursor, writes, saved,
                   codecVars, parVars, dimVars>>

\* lines 65 and 85: write the output file; the write may fail
Save ==
    /\ pc = "built"
    /\ \E ok \in BOOLEAN : saved' = ok /\ pc' = IF ok THEN "done" ELSE "err_save"
    /\ UNCHANGED <<cmd, img, argb_1555, rgba_img, cursor, writes,
                   codecVars, parVars, dimVars>>

Next ==
    \/ Decode
    \/ PackAlloc
    \/ PackStep
    \/ PackBuild
    \/ UnpackMatch
    \/ UnpackStep
    \/ UnpackBuild
    \/ Save

Spec == Init /\ [][Next]_vars

\* C1: re-packing what unpack returned for a 16-bit word gives that word back
C1_RoundTrip == cop = "repacked" => cre = cword
C1_Witness == cop = "repacked" /\ cword = 33825 /\ crgba = <<8, 8, 8, 255>> /\ cre = 33825

\* C2: each quantized channel is in 0..31 and the packed word holds it in its
\* own field: red in bits 14-10, green in 9-5, blue in 4-0, bit 15 the alpha bit
C2_BitFields ==
    cop = "pack_out" =>
        /\ quantize(crgba[1]) \in 0..31
        /\ quantize(crgba[2]) \in 0..31
        /\ quantize(crgba[3]) \in 0..31
        /\ (cword \div 1024) % 32 = quantize(crgba[1])
        /\ (cword \div 32) % 32 = quantize(crgba[2])
        /\ cword % 32 = quantize(crgba[3])
        /\ cword \div 32768 = (IF crgba[4] > 0 THEN 1 ELSE 0)
C2_Witness == cop = "pack_out" /\ crgba = <<255, 255, 255, 0>> /\ cword = 32767

\* C3: pack sets bit 15 exactly when its flag is true, the flag pack_image
\* passes is (source alpha > 0), and unpack's alpha is 255 when bit 15 is 1
\* and 0 otherwise
C3_AlphaBinary ==
    /\ cop = "pack_out" =>
        /\ pack(crgba[1], crgba[2], crgba[3], TRUE) \div 32768 = 1
        /\ pack(crgba[1], crgba[2], crgba[3], FALSE) \div 32768 = 0
        /\ cword = pack(crgba[1], crgba[2], crgba[3], crgba[4] > 0)
    /\ cop \in {"unpack_out", "repacked"} =>
        /\ crgba[4] \in {0, 255}
        /\ (crgba[4] = 255) <=> (cword \div 32768 = 1)
C3_Witness ==
    \/ cop = "pack_out" /\ crgba = <<0, 255, 0, 1>> /\ cword = 32768 + 992
    \/ cop = "unpack_out" /\ cword = 32767 /\ crgba[4] = 0

\* C4: a larger 8-bit channel value never gets a smaller 5-bit field, for
\* red, green and blue, the other arguments fixed
C4_Monotonic ==
    cop = "pack_out" =>
        /\ \A c1 \in 0..(crgba[1] - 1) :
             (pack(c1, crgba[2], crgba[3], crgba[4] > 0) \div 1024) % 32 <= (cword \div 1024) % 32
        /\ \A c1 \in 0..(crgba[2] - 1) :
             (pack(crgba[1], c1, crgba[3], crgba[4] > 0) \div 32) % 32 <= (cword \div 32) % 32
        /\ \A c1 \in 0..(crgba[3] - 1) :
             pack(crgba[1], crgba[2], c1, crgba[4] > 0) % 32 <= cword % 32
C4_Witness == cop = "pack_out" /\ crgba = <<200, 0, 0, 255>> /\ (cword \div 1024) % 32 = 24

Abs(n) == IF n < 0 THEN -n ELSE n

\* C9: both scalings round to nearest: 2*|255*q - 31*c| <= 255 for the field q
\* pack stores for channel c, 2*|31*e - 255*c5| <= 31 for the channel e unpack
\* returns for field c5; the end points map to the end points and the value
\* cast to 8 bits is at most 255
C9_RoundNearest ==
    /\ cop = "pack_out" =>
        \A i \in 1..3 :
            LET c == crgba[i]
                q == (cword \div Pow2(5 * (3 - i))) % 32
            IN /\ 2 * Abs(255 * q - 31 * c) <= 255
               /\ (c = 0 => q = 0) /\ (c = 255 => q = 31)
    /\ cop = "unpack_out" =>
        \A i \in 1..3 :
            LET c5 == (cword \div Pow2(5 * (3 - i))) % 32
                e  == crgba[i]
            IN /\ 2 * Abs(31 * e - 255 * c5) <= 31
               /\ e \in 0..255 /\ expand(c5) = e
               /\ (c5 = 0 => e = 0) /\ (c5 = 31 => e = 255)
C9_Witness ==
    \/ cop = "pack_out" /\ crgba[1] = 4 /\ (cword \div 1024) % 32 = 0
    \/ cop = "unpack_out" /\ cword = 1024 /\ crgba[1] = 8

IsFixture ==
    /\ cmd = "pack" /\ img.width = 2 /\ img.height = 1
    /\ img.data[<<0, 0>>] = <<255, 0, 0, 255>>
    /\ img.data[<<1, 0>>] = <<0, 255, 0, 0>>

\* C5 as claimed: the 2x1 image (255,0,0,255), (0,255,0,0) packs to
\* [0x7C00, 0x03E0]
C5_FixtureAsClaimed == (IsFixture /\ pc \in Finished) => argb_1555 = <<31744, 992>>

\* C5 amended: the 2x1 image (255,0,0,255), (0,255,0,0) packs to
\* [0xFC00, 0x03E0]: the first pixel is opaque, so bit 15 is set
C5_Fixture == (IsFixture /\ pc \in Finished) => argb_1555 = <<64512, 992>>
C5_Witness == IsFixture /\ pc = "done" /\ saved /\ argb_1555 = <<64512, 992>>

\* C6: an input that is not Luma16 makes unpack_image fail before any pixel
\* is unpacked and before the output is written; the loop is entered only
\* for Luma16
C6_FormatMismatch ==
    cmd = "unpack" =>
        /\ (img.format # "Luma16" /\ pc \notin {"start", "decoded", "err_decode"}) =>
              /\ pc = "err_format"
              /\ cursor = 0 /\ rgba_img = <<>> /\ writes = <<>> /\ ~saved
        /\ (pc \in {"loop"} \cup Finished \/ cursor > 0 \/ saved) => img.format = "Luma16"
C6_Witness == cmd = "unpack" /\ img.format = "Rgb8" /\ pc = "err_format" /\ ~saved

\* C7: when pack_image's loop has finished the buffer has width*height
\* entries, each written exactly once, and the entry at y*width + x is
\* pack(r, g, b, a > 0) of the input pixel at (x, y)
C7_RowMajor ==
    (cmd = "pack" /\ pc \in Finished) =>
        /\ Len(argb_1555) = img.width * img.height
        /\ \A i \in 1..Len(argb_1555) : writes[i] = 1
        /\ \A c \in Coords(img.width, img.height) :
              LET p == img.data[c]
              IN argb_1555[c[2] * img.width + c[1] + 1] = pack(p[1], p[2], p[3], p[4] > 0)
C7_Witness ==
    /\ cmd = "pack" /\ pc = "built" /\ img.width = 2 /\ img.height = 2
    /\ img.data[<<1, 0>>] = <<255, 0, 0, 255>> /\ img.data[<<0, 1>>] = <<0, 255, 0, 0>>
    /\ argb_1555[2] = 64512 /\ argb_1555[3] = 992

(***************************************************************************)
(* The pack inputs of the monotonicity check: one channel runs over all    *)
(* 8-bit values, the other arguments are fixed by a context.               *)
(***************************************************************************)
MonoContexts == { <<0, 0, 255>>, <<255, 255, 0>>, <<100, 31, 1>> }
MonoInputs ==
    { <<c, k[1], k[2], k[3]>> : c \in Channel, k \in MonoContexts }
    \cup { <<k[1], c, k[2], k[3]>> : c \in Channel, k \in MonoContexts }
    \cup { <<k[1], k[2], c, k[3]>> : c \in Channel, k \in MonoContexts }

PackInit ==
    /\ cop = "pack_in" /\ crgba \in MonoInputs /\ cword = 0 /\ cre = 0
    /\ RunIdle /\ ParIdle /\ DimIdle

SpecPack == PackInit /\ [][PackOne]_vars

(***************************************************************************)
(* The pixel loops with the order left open: workers take pixels in any    *)
(* order, each computes the value of the pixel it took and stores it at    *)
(* that pixel's position.                                                  *)
(***************************************************************************)
ParMaxW == 2
ParMaxH == 2
NWorkers == 2
Workers == 1..NWorkers

\* an image whose pixels all differ
RgbaPattern(c) ==
    <<(c[1] * 80 + 17) % 256, (c[2] * 80 + 40) % 256, 255 - c[1],
      IF (c[1] + c[2]) % 2 = 0 THEN 255 ELSE 0>>
Luma16Pattern(c) == (c[1] * 1057 + c[2] * 33 + 32768 * (c[1] % 2) + 5) % U16Mod

ParImages(command) ==
    { [format |-> IF command = "pack" THEN "Rgba8" ELSE "Luma16",
       width |-> w, height |-> h,
       data |-> [c \in Coords(w, h) |->
                    IF command = "pack" THEN RgbaPattern(c) ELSE Luma16Pattern(c)]] :
      w \in 1..ParMaxW, h \in 1..ParMaxH }

ParInit ==
    /\ cmd \in {"pack", "unpack"}
    /\ img \in ParImages(cmd)
    /\ pc = "decoded" /\ argb_1555 = <<>> /\ rgba_img = <<>> /\ cursor = 0
    /\ writes = <<>> /\ saved = FALSE
    /\ pending = Coords(img.width, img.height)
    /\ held = [w \in Workers |-> <<>>]
    /\ last = <<>>
    /\ CodecIdle /\ DimIdle

\* lines 58-60 and 80-82: a worker takes a pixel nobody took and computes
ParTake(w) ==
    /\ pc = "loop" /\ held[w] = <<>>
    /\ \E c \in pending :
         /\ pending' = pending \ {c}
         /\ held' = [held EXCEPT ![w] = <<c>>]
    /\ UNCHANGED last
    /\ UNCHANGED <<runVars, codecVars, dimVars>>

\* lines 61 and 83: the worker stores the value at its pixel's position
ParStore(w) ==
    /\ pc = "loop" /\ held[w] # <<>>
    /\ LET x == held[w][1][1]
           y == held[w][1][2]
       IN IF cmd = "pack"
          THEN IF index_of(x, y, img.width) >= Len(argb_1555)
               THEN pc' = "panic" /\ UNCHANGED <<argb_1555, writes, cursor>>
               ELSE /\ argb_1555' = pack_turn(argb_1555, img, x, y)
                    /\ writes' = [writes EXCEPT ![index_of(x, y, img.width) + 1] = @ + 1]
                    /\ cursor' = cursor + 1
                    /\ pc' = "loop"
               /\ UNCHANGED rgba_img
          ELSE /\ rgba_img' = unpack_turn(rgba_img, img, x, y)
               /\ writes' = [writes EXCEPT ![<<x, y>>] = @ + 1]
               /\ cursor' = cursor + 1
               /\ UNCHANGED <<pc, argb_1555>>
    /\ held' = [held EXCEPT ![w] = <<>>]
    /\ last' = held[w][1]
    /\ UNCHANGED <<cmd, img, saved, pending, codecVars, dimVars>>

\* lines 62 and 84: the loop is over when every pixel was taken and stored
ParJoin ==
    /\ pc = "loop" /\ pending = {} /\ \A w \in Workers : held[w] = <<>>
    /\ pc' = "built"
    /\ UNCHANGED <<cmd, img, argb_1555, rgba_img, cursor, writes, saved,
                   parVars, codecVars, dimVars>>

ParNext ==
    \/ PackAlloc
    \/ UnpackMatch
    \/ \E w \in Workers : ParTake(w)
    \/ \E w \in Workers : ParStore(w)
    \/ ParJoin

SpecPar == ParInit /\ [][ParNext]_vars

\* C8: whatever order the pixels are taken in and however the workers
\* interleave, the completed buffer is the one the sequential loop produces,
\* for pack_image and for unpack_image
C8_OrderIndependent ==
    pc = "built" =>
        /\ cmd = "pack" =>
              argb_1555 = pack_loop([i \in 1..(img.width * img.height) |-> 0], img, NPixels(img))
        /\ cmd = "unpack" =>
              rgba_img = unpack_loop([c \in Coords(img.width, img.height) |-> <<0, 0, 0, 0>>],
                                     img, NPixels(img))
        /\ cursor = NPixels(img)
C8_Witness ==
    /\ pc = "built" /\ cmd = "pack" /\ img.width = 2 /\ img.height = 2
    /\ last = <<0, 0>> /\ writes = <<1, 1, 1, 1>>
    /\ argb_1555[1] = pack_pixel(img.data[<<0, 0>>])
    /\ argb_1555[4] = pack_pixel(img.data[<<1, 1>>])
    /\ argb_1555[1] # argb_1555[4]

(***************************************************************************)
(* pack_image's size and index arithmetic for any u32 width and height     *)
(***************************************************************************)
DimVals ==
    { <<0, 1>>, <<0, 2>>, <<0, 3>>, <<0, 65535>>, <<1, 0>>, <<1, 1>>,
      <<32768, 0>>, <<65535, 65535>> }
Pred32(a) == IF a[2] > 0 THEN <<a[1], a[2] - 1>> ELSE <<a[1] - 1, U16Mod - 1>>
DimCoords(d) == { <<0, 0>>, Pred32(d) }

DimInit ==
    /\ build \in Builds /\ dimW \in DimVals /\ dimH \in DimVals
    /\ bufLen = <<0, 0>> /\ idx = <<0, 0>> /\ dpc = "decoded"
    /\ CodecIdle /\ RunIdle /\ ParIdle

\* lines 56-57
DimAlloc ==
    /\ dpc = "decoded"
    /\ IF mul_overflows(dimW, dimH) /\ build = "checked"
       THEN dpc' = "panic" /\ UNCHANGED bufLen
       ELSE dpc' = "loop" /\ bufLen' = buffer_len(dimW, dimH)
    /\ UNCHANGED <<build, dimW, dimH, idx, codecVars, runVars, parVars>>

\* lines 58-61 for a pixel (x, y) the loop gets to: every pixel before it in
\* row-major order was stored within the buffer
DimIndex ==
    /\ dpc = "loop"
    /\ \E x \in DimCoords(dimW), y \in DimCoords(dimH) :
         LET m == index_wide(x, y, dimW)
         IN /\ WideLeq32(m, bufLen)
            /\ idx' = Low32(m)
            /\ dpc' = IF ~Fits32(m) /\ build = "checked" THEN "panic"
                      ELSE IF Less32(Low32(m), bufLen) THEN "loop"
                      ELSE "panic_bounds"
    /\ UNCHANGED <<build, dimW, dimH, bufLen, codecVars, runVars, parVars>>

DimNext == DimAlloc \/ DimIndex

SpecDim == DimInit /\ [][DimNext]_vars

\* C10 as claimed: for every u32 width and height the product width*height
\* fits in 32 bits, the buffer has that many entries, and every index
\* y*width + x lies within the buffer
C10_NoWraparound ==
    dpc # "decoded" =>
        /\ Fits32(WideMul(dimW, dimH))
        /\ dpc \notin {"panic", "panic_bounds"}
        /\ bufLen = Low32(WideMul(dimW, dimH))

====
